---- MODULE Spec2Model ----
(***************************************************************************)
(* Timeline custom record sources of the SweetsNSavories/timeline          *)
(* repository, as a state machine:                                         *)
(*   - ShipmentRecordSource        (src/TimelineConnectorImproved.js)      *)
(*   - VirtualEntitySecondaryRecordSource  (src/unnamed/part_000)          *)
(*   - the ShipmentRecordSource that src/ARCHITECTURE.md documents stage   *)
(*     by stage (cache, _applySearch, _applyFilters, _sortRecords,         *)
(*     _getPaginatedRecords, getRecordUX), called "Documented" here.       *)
(* One adapter instance of one of the three classes serves the host's      *)
(* getRecordsData calls; the Dataverse Web API (retrieveMultipleRecords)   *)
(* is the environment: it answers a query from the backing store or fails. *)
(*                                                                         *)
(* Texts are sequences of one-character strings, so that toLowerCase,      *)
(* template concatenation and includes/contains are computed, not assumed. *)
(***************************************************************************)
EXTENDS Integers, Sequences, FiniteSets, TLC

\* ------------------------------------------------------------------ bounds

\* getRecordsData calls the host issues on the instance in one behaviour
MaxCalls == 3

\* the day "new Date()" yields at fetch time (later than every createdon)
FetchTimeNow == 9

\* ------------------------------------------------------------------- texts

\* undefined / null / a missing property (a text that is no string)
Undefined == <<"<undefined>">>

\* the empty string (falsy in JavaScript, like undefined)
EmptyText == <<>>

\* no record id (lastItem absent, accountId null)
NoId == "none"

\* request.pageSize when the request has no such property (undefined)
NoPageSize == -1

\* `pageSize || d`: undefined and 0 are falsy
PageSizeOr(pageSize, d) == IF pageSize = NoPageSize \/ pageSize = 0 THEN d ELSE pageSize

Shipped == <<"S", "h", "i", "p", "p", "e", "d">>

Delivered == <<"D", "e", "l", "i", "v", "e", "r", "e", "d">>

\* String.prototype.toLowerCase on one character of the alphabet in use
LowerChar(ch) ==
    CASE ch = "S" -> "s"
      [] ch = "D" -> "d"
      [] ch = "H" -> "h"
      [] ch = "T" -> "t"
      [] ch = "R" -> "r"
      [] OTHER -> ch

\* String.prototype.toLowerCase
ToLowerCase(t) == [i \in 1..Len(t) |-> LowerChar(t[i])]

\* `${v}` in a template literal: undefined renders as the word undefined
TemplateText(v) ==
    IF v = Undefined THEN <<"u", "n", "d", "e", "f", "i", "n", "e", "d">> ELSE v

\* String.prototype.includes: k occurs in t as a contiguous substring
Includes(t, k) ==
    \E i \in 0..(Len(t) - Len(k)) : SubSeq(t, i + 1, i + Len(k)) = k

\* JavaScript truthiness of a text value
Truthy(v) == v # Undefined /\ v # EmptyText

\* ------------------------------------------------------------ backing store

\* a row of the crbff_shipments virtual entity
Shipment(id, title, status, recipient, tracking, createdon) ==
    [crbff_shipmentsid |-> id, crbff_title |-> title, crbff_field1 |-> status,
     crbff_field3 |-> recipient, crbff_field4 |-> tracking, createdon |-> createdon]

\* a row of the email entity
Email(id, createdon, regarding, method) ==
    [activityid |-> id, createdon |-> createdon, sender |-> <<"s", id>>,
     subject |-> <<"j", id>>, regarding |-> regarding, method |-> method]

\* the host record the timeline is shown on
HostRecordId == "acc1"

\* A(Shipped, day 1), B(Delivered, day 3), C(Shipped, day 2), stored in the
\* order B, A, C; only A carries the letters "sh" outside its status.
ShipA == Shipment("A", <<"S", "H", "a">>, Shipped, <<"r", "a">>, <<"t", "a">>, 1)

ShipB == Shipment("B", <<"b", "x">>, Delivered, <<"r", "b">>, <<"t", "b">>, 3)

ShipC == Shipment("C", <<"c", "x">>, Shipped, <<"r", "c">>, <<"t", "c">>, 2)

\* the stores the backing source may hold (createdon 0: the row has none)
Stores ==
    { [crbff_shipments |-> <<ShipB, ShipA, ShipC>>,
       email |-> <<Email("B", 3, HostRecordId, 1), Email("X", 2, "acc2", 1),
                   Email("A", 1, HostRecordId, 1), Email("C", 2, HostRecordId, 2),
                   Email("Y", 1, HostRecordId, 4)>>],
      [crbff_shipments |-> <<ShipC, ShipA>>,
       email |-> <<Email("C", 2, HostRecordId, 1), Email("A", 0, HostRecordId, 1),
                   Email("B", 1, HostRecordId, 1)>>] }

\* --------------------------------------------- Dataverse Web API (remote)

\* `$top=${req.pageSize || 10}`: the page size the query asks for by default
DefaultPageSize == 10

\* The query string handed to retrieveMultipleRecords, kept as its parts:
\* entity, $top (0: none), the search text of the contains(...) predicate
\* (EmptyText: none), the values of the `crbff_field1 eq '...'` predicates
\* joined by ' and ', and the _regardingobjectid_value of the email filter.
Query(entity, top, search, statusEq, regarding) ==
    [entity |-> entity, top |-> top, search |-> search, statusEq |-> statusEq,
     regarding |-> regarding]

\* no query (the call issued none)
NoQuery == Query("none", 0, EmptyText, <<>>, NoId)

\* contains(field, 's') as Dataverse evaluates it (case-insensitive collation)
ODataContains(field, s) == Includes(ToLowerCase(field), ToLowerCase(s))

\* or(contains(crbff_title,s), or(contains(crbff_field3,s), contains(crbff_field4,s)))
SearchPredicate(row, s) ==
    \/ ODataContains(row.crbff_title, s)
    \/ ODataContains(row.crbff_field3, s)
    \/ ODataContains(row.crbff_field4, s)

\* the $filter of a crbff_shipments query: its predicates joined by ' and '
ShipmentFilterHolds(row, q) ==
    /\ (q.search # EmptyText => SearchPredicate(row, q.search))
    /\ \A i \in 1..Len(q.statusEq) : row.crbff_field1 = q.statusEq[i]

\* $filter=mrc_methodofcommunication ne 4 and _regardingobjectid_value eq <id>
EmailFilterHolds(row, q) == row.method # 4 /\ row.regarding = q.regarding

\* $select=crbff_title,crbff_field1,...: createdon is not among the selected
\* columns, so the returned entity has none
SelectedColumns(row) == [row EXCEPT !.createdon = 0]

\* $top=n: the first n rows
Top(rows, n) == IF n = 0 \/ n >= Len(rows) THEN rows ELSE SubSeq(rows, 1, n)

\* what retrieveMultipleRecords resolves to: the entities of the answer
RetrieveMultipleRecords(st, q) ==
    IF q.entity = "crbff_shipments"
    THEN LET Holds(row) == ShipmentFilterHolds(row, q)
             hits == SelectSeq(st.crbff_shipments, Holds)
         IN  Top([i \in 1..Len(hits) |-> SelectedColumns(hits[i])], q.top)
    ELSE LET Holds(row) == EmailFilterHolds(row, q)
         IN  SelectSeq(st.email, Holds)

\* ------------------------------------------------------- record conversion

\* JSON.stringify of an entity: a payload that JSON.parse reads back
JSONStringify(obj) == [json |-> obj]

\* JSON.parse of a payload
JSONParse(data) == data.json

\* a data string that is no JSON text
MalformedPayload == [text |-> <<"{">>]

\* JSON.parse(data) throws a SyntaxError: data is no JSON text
ParseThrows(data) == "json" \notin DOMAIN data

\* an internal record {id, sortDateValue, data}
Record(id, sortDateValue, data) ==
    [id |-> id, sortDateValue |-> sortDateValue, data |-> data]

\* the ids of a sequence of records, in order
IdsOf(records) == [i \in 1..Len(records) |-> records[i].id]

\* ---------------------------------------------------- Array.prototype.sort

\* orderRecordsData's comparator without its isAscending branch
OrderCompareAscendingOnly(a, b, isAscending) ==
    IF a.sortDateValue = 0 \/ b.sortDateValue = 0 THEN 0
    ELSE a.sortDateValue - b.sortDateValue

\* the comparator of orderRecordsData: 0 when either sortDateValue is missing
OrderCompare(a, b, isAscending) ==
    IF a.sortDateValue = 0 \/ b.sortDateValue = 0 THEN 0
    ELSE IF isAscending THEN a.sortDateValue - b.sortDateValue
    ELSE b.sortDateValue - a.sortDateValue

\* the comparator of _sortRecords: new Date(undefined).getTime() is NaN, and
\* a NaN comparison result is taken as 0 by the sort
SortCompare(a, b, isAscending) ==
    IF a.sortDateValue = 0 \/ b.sortDateValue = 0 THEN 0
    ELSE IF isAscending THEN a.sortDateValue - b.sortDateValue
    ELSE b.sortDateValue - a.sortDateValue

\* the comparator a sort call was given
Compare(a, b, isAscending, guarded) ==
    IF guarded THEN OrderCompare(a, b, isAscending) ELSE SortCompare(a, b, isAscending)

Reverse(s) == [i \in 1..Len(s) |-> s[Len(s) + 1 - i]]

\* length of the initial run: the elements from index idx on that continue it
RECURSIVE RunEnd(_, _, _, _, _)
RunEnd(s, idx, descending, isAscending, guarded) ==
    IF idx > Len(s) THEN Len(s)
    ELSE LET order == Compare(s[idx], s[idx - 1], isAscending, guarded)
         IN  IF (descending /\ order >= 0) \/ (~descending /\ order < 0)
             THEN idx - 1
             ELSE RunEnd(s, idx + 1, descending, isAscending, guarded)

\* a binary search that puts the pivot before the elements it ties with
RECURSIVE BinaryPositionBeforeTies(_, _, _, _, _, _)
BinaryPositionBeforeTies(s, pivot, left, right, isAscending, guarded) ==
    IF left >= right THEN left
    ELSE LET mid == left + ((right - left) \div 2)
         IN  IF Compare(pivot, s[mid + 1], isAscending, guarded) <= 0
             THEN BinaryPositionBeforeTies(s, pivot, left, mid, isAscending, guarded)
             ELSE BinaryPositionBeforeTies(s, pivot, mid + 1, right, isAscending, guarded)

\* binary search of the insertion point of pivot in s[left+1 .. right]
RECURSIVE BinaryPosition(_, _, _, _, _, _)
BinaryPosition(s, pivot, left, right, isAscending, guarded) ==
    IF left >= right THEN left
    ELSE LET mid == left + ((right - left) \div 2)
         IN  IF Compare(pivot, s[mid + 1], isAscending, guarded) < 0
             THEN BinaryPosition(s, pivot, left, mid, isAscending, guarded)
             ELSE BinaryPosition(s, pivot, mid + 1, right, isAscending, guarded)

\* binary insertion of s[start+1 ..] into the sorted prefix s[1 .. start]
RECURSIVE BinaryInsertionSort(_, _, _, _)
BinaryInsertionSort(s, start, isAscending, guarded) ==
    IF start >= Len(s) THEN s
    ELSE LET pivot == s[start + 1]
             left == BinaryPosition(s, pivot, 0, start, isAscending, guarded)
             moved == SubSeq(s, 1, left) \o <<pivot>> \o SubSeq(s, left + 1, start)
                        \o SubSeq(s, start + 2, Len(s))
         IN  BinaryInsertionSort(moved, start + 1, isAscending, guarded)

\* recordsData.sort(comparator) as the engine sorts a short array: the initial
\* run is found (and reversed when strictly descending), the rest is inserted
\* by binary insertion
ArraySort(s, isAscending, guarded) ==
    IF Len(s) < 2 THEN s
    ELSE LET descending == Compare(s[2], s[1], isAscending, guarded) < 0
             run == RunEnd(s, 3, descending, isAscending, guarded)
             made == IF descending
                     THEN Reverse(SubSeq(s, 1, run)) \o SubSeq(s, run + 1, Len(s))
                     ELSE s
         IN  BinaryInsertionSort(made, run, isAscending, guarded)

\* ------------------------------------------------- requests and results

\* the request of the Timeline control (req): requestId, pageSize,
\* isAscending, lastItem (the id of the last item shown, NoId: none) and
\* searchKeyword, the property the control does not fill in but
\* ShipmentRecordSource reads
Request(requestId, pageSize, isAscending, lastItem, searchKeyword) ==
    [requestId |-> requestId, pageSize |-> pageSize, isAscending |-> isAscending,
     lastItem |-> lastItem, searchKeyword |-> searchKeyword]

\* the filter of the Timeline control: searchKey (the search bar) and
\* filterData (the facet groups with their options)
Filter(searchKey, filterData) == [searchKey |-> searchKey, filterData |-> filterData]

\* one facet group ShipmentStatus with the options Shipped and Delivered
StatusGroup(shippedSelected, deliveredSelected) ==
    [name |-> "ShipmentStatus",
     options |-> << [value |-> Shipped, isSelected |-> shippedSelected],
                    [value |-> Delivered, isSelected |-> deliveredSelected] >>]

\* the requestId the host gives its c-th call
RequestIdOf(c) == <<"req-1", "req-2", "req-3", "req-4">>[c]

\* {requestId, records, hasMoreRecords}; a property the object literal does
\* not have reads as "undefined"
Result(requestId, records, hasMoreRecords) ==
    [requestId |-> requestId, records |-> records, hasMoreRecords |-> hasMoreRecords]

\* a boolean property as it reads in a result
BoolText(b) == IF b THEN "true" ELSE "false"

NoRequest == Request("none", 0, TRUE, NoId, EmptyText)

NoFilter == Filter(EmptyText, <<>>)

NoResult == Result("none", <<>>, "none")

\* a pipeline's outcome: the result returned, and the contents the array that
\* holds the fetched records has afterwards
Outcome(result, array) == [result |-> result, array |-> array]

\* the values of the options with isSelected, over all groups, in order
RECURSIVE SelectedOf(_)
SelectedOf(options) ==
    IF options = <<>> THEN <<>>
    ELSE (IF options[1].isSelected THEN <<options[1].value>> ELSE <<>>)
            \o SelectedOf(Tail(options))

RECURSIVE SelectedValues(_)
SelectedValues(filterData) ==
    IF filterData = <<>> THEN <<>>
    ELSE SelectedOf(filterData[1].options) \o SelectedValues(Tail(filterData))

\* ------------------------------------------------- ShipmentRecordSource

\* the query string getRecordsData builds from the request and the filter
ShipmentQuery(req, filter) ==
    Query("crbff_shipments",
          PageSizeOr(req.pageSize, DefaultPageSize),
          IF Truthy(req.searchKeyword) THEN req.searchKeyword ELSE EmptyText,
          SelectedValues(filter.filterData),
          NoId)

\* the map reading i.id, a property the entities do not have
ShipmentRecordsIdFromId(entities) ==
    [i \in 1..Len(entities) |-> Record(NoId, FetchTimeNow, JSONStringify(entities[i]))]

\* (res.entities || []).map(i => ({id, sortDateValue: new Date()..., data}))
ShipmentRecords(entities) ==
    [i \in 1..Len(entities) |->
        Record(entities[i].crbff_shipmentsid, FetchTimeNow, JSONStringify(entities[i]))]

\* the value returned after the await
ShipmentReturn(req, entities) ==
    Outcome(Result(req.requestId, ShipmentRecords(entities), "false"),
            IdsOf(ShipmentRecords(entities)))

\* catch (e) { return { records: [] }; }
ShipmentCatch == Outcome(Result("undefined", <<>>, "undefined"), <<>>)

\* ------------------------------------- VirtualEntitySecondaryRecordSource

\* the fallback of init: Xrm.Page.data.entity.getId(), when the legacy page
\* object has one
XrmPageIds == {NoId, HostRecordId}

\* this.accountId after init
InitAccountId(ctx, xrmPageId) == IF ctx.id # NoId THEN ctx.id ELSE xrmPageId

\* the query string fetchAllRecords builds
VirtualEntityQuery(accountId) == Query("email", 0, EmptyText, <<>>, accountId)

\* processRecordsData
ProcessRecordsData(rawRecordsData) ==
    [i \in 1..Len(rawRecordsData) |->
        Record(rawRecordsData[i].activityid, rawRecordsData[i].createdon,
               JSONStringify([id |-> rawRecordsData[i].activityid,
                              name |-> rawRecordsData[i].sender,
                              airDate |-> rawRecordsData[i].subject]))]

\* orderRecordsData: sorts recordsData in place
OrderRecordsData(recordsData, isAscending) == ArraySort(recordsData, isAscending, TRUE)

\* return { requestId: request.requestId, records: [] } of the catch and of
\* the accountId check
VirtualEntityEmpty(request) == Result(request.requestId, <<>>, "undefined")

\* recordsDataCounted: with pageSize undefined the comparison is false and
\* slice(0, undefined) is the whole array
RecordsDataCounted(recordsAfterLastItem, pageSize) ==
    IF pageSize = NoPageSize THEN recordsAfterLastItem
    ELSE IF pageSize > Len(recordsAfterLastItem) THEN recordsAfterLastItem
    ELSE SubSeq(recordsAfterLastItem, 1, pageSize)

\* getRecordsData after `await this.fetchAllRecords()`: the class has neither
\* SampleNamespace.FilterHelper nor a method getRecordsAfterLastItem, so
\* either call throws a TypeError, which the catch turns into empty records;
\* the sort has then already reordered the fetched array
VirtualEntityPipeline(request, filter, recordsData) ==
    IF Len(filter.filterData) > 0
    THEN Outcome(VirtualEntityEmpty(request), IdsOf(recordsData))
    ELSE LET ordered == OrderRecordsData(recordsData, request.isAscending)
         IN  IF request.lastItem # NoId
             THEN Outcome(VirtualEntityEmpty(request), IdsOf(ordered))
             ELSE Outcome(Result(request.requestId,
                                 RecordsDataCounted(ordered, request.pageSize),
                                 "undefined"),
                          IdsOf(ordered))

\* ------------------------- ShipmentRecordSource as ARCHITECTURE.md has it

\* the query of the cache stage: $select only, no $top, no $filter
DocumentedQuery == Query("crbff_shipments", 0, EmptyText, <<>>, NoId)

\* response.entities.map(entity => ({id, sortDateValue: entity.createdon ||
\* new Date().toISOString(), data: JSON.stringify(entity)}))
DocumentedRecords(entities) ==
    [i \in 1..Len(entities) |->
        Record(entities[i].crbff_shipmentsid,
               IF entities[i].createdon # 0 THEN entities[i].createdon ELSE FetchTimeNow,
               JSONStringify(entities[i]))]

\* `${entity.crbff_title} ${entity.crbff_field1} ${entity.crbff_field3} ${entity.crbff_field4}`
SearchText(entity) ==
    TemplateText(entity.crbff_title) \o <<" ">> \o TemplateText(entity.crbff_field1)
        \o <<" ">> \o TemplateText(entity.crbff_field3) \o <<" ">>
        \o TemplateText(entity.crbff_field4)

\* _applySearch(records, keyword)
ApplySearch(records, keyword) ==
    LET searchTerm == ToLowerCase(keyword)
        Matches(rec) == Includes(ToLowerCase(SearchText(JSONParse(rec.data))), searchTerm)
    IN  SelectSeq(records, Matches)

\* _applyFilters(records, filterData)
\* an _applyFilters that gives the records back when none has a selected
\* value (`filtered.length ? filtered : records`)
ApplyFiltersKeepsAllWhenNoneMatch(records, filterData) ==
    LET selectedValues == SelectedValues(filterData)
        Kept(rec) == \E i \in 1..Len(selectedValues) :
                        selectedValues[i] = JSONParse(rec.data).crbff_field1
    IN  IF Len(selectedValues) = 0 \/ SelectSeq(records, Kept) = <<>> THEN records
        ELSE SelectSeq(records, Kept)

ApplyFilters(records, filterData) ==
    LET selectedValues == SelectedValues(filterData)
        Kept(rec) == \E i \in 1..Len(selectedValues) :
                        selectedValues[i] = JSONParse(rec.data).crbff_field1
    IN  IF Len(selectedValues) = 0 THEN records ELSE SelectSeq(records, Kept)

\* _sortRecords(records, isAscending): sorts the array it is given
SortRecords(records, isAscending) == ArraySort(records, isAscending, FALSE)

\* records.findIndex(r => r.id === req.lastItem.id), 0-based, -1 when absent
FindIndex(records, id) ==
    IF \E i \in 1..Len(records) : records[i].id = id
    THEN (CHOOSE i \in 1..Len(records) :
             /\ records[i].id = id
             /\ \A j \in 1..(i - 1) : records[j].id # id) - 1
    ELSE -1

\* Array.prototype.slice(start, end) for 0 <= start <= end
Slice(records, start, end) ==
    SubSeq(records, start + 1, IF end > Len(records) THEN Len(records) ELSE end)

\* _getPaginatedRecords(records, req)
GetPaginatedRecords(records, req) ==
    LET lastIndex == IF req.lastItem # NoId THEN FindIndex(records, req.lastItem) ELSE -1
        start == IF lastIndex # -1 THEN lastIndex + 1 ELSE 0
    IN  Slice(records, start,
              start + PageSizeOr(req.pageSize, DefaultPageSize))

\* getRecordUX(rec): the display record (each createElement label as its text)
GetRecordUX(rec) ==
    LET entity == JSONParse(rec.data)
    IN  [id |-> rec.id, moduleName |-> "ShipmentConnector",
         sortDateValue |-> rec.sortDateValue, searchText |-> SearchText(entity),
         header |-> IF Truthy(entity.crbff_title) THEN entity.crbff_title
                    ELSE <<"N", "o", " ", "T", "i", "t", "l", "e">>,
         body |-> <<"S", "t", "a", "t", "u", "s", ":", " ">>
                    \o TemplateText(entity.crbff_field1) \o <<" ", "|", " ", "T", "o", ":", " ">>
                    \o TemplateText(entity.crbff_field3),
         footer |-> <<"T", "r", "a", "c", "k", "i", "n", "g", ":", " ">>
                    \o TemplateText(entity.crbff_field4)]

\* the records the stages 3 to 5 leave: a copy of the cache, searched,
\* facet-filtered, then sorted
DocumentedRecordsData(cache, req, filter) ==
    LET copy == cache
        searched == IF Truthy(filter.searchKey) THEN ApplySearch(copy, filter.searchKey)
                    ELSE copy
        filtered == IF Len(filter.filterData) > 0
                    THEN ApplyFilters(searched, filter.filterData)
                    ELSE searched
    IN  SortRecords(filtered, req.isAscending)

\* stages 3 to 8 of getRecordsData on the cached records; the cache array is
\* left as it was, since every stage works on the copy
DocumentedPipeline(cache, req, filter) ==
    LET recordsData == DocumentedRecordsData(cache, req, filter)
        paginated == GetPaginatedRecords(recordsData, req)
        formattedRecords == [i \in 1..Len(paginated) |-> GetRecordUX(paginated[i])]
    IN  Outcome(Result(req.requestId, formattedRecords,
                       BoolText(Len(paginated) < Len(recordsData))),
                IdsOf(cache))

\* ------------------------------------------------------------------ state

VARIABLES
    cls,           \* the class of the adapter instance
    store,         \* the backing store behind the Web API
    context,       \* this._context / this.context, as init stored it
    accountId,     \* this.accountId (VirtualEntitySecondaryRecordSource)
    recordsCache,  \* this._recordsCache (documented ShipmentRecordSource)
    calls,         \* the host's getRecordsData calls, by number
    fetchCount,    \* invocations of webAPI.retrieveMultipleRecords so far
    ux,            \* the host's last getRecordUX call and how it ended
    peer,          \* the fields of a second instance of the class
    staged         \* recordsData of two runs of the stages 3 and 4, one per order

vars == <<cls, store, context, accountId, recordsCache, calls, fetchCount, ux, peer,
          staged>>

Classes == {"Shipment", "VirtualEntity", "Documented"}

\* the context init is given: whether it has a webAPI, and tableContext.id
Context(webAPI, id) == [inited |-> TRUE, webAPI |-> webAPI, id |-> id]

Contexts == {Context(TRUE, HostRecordId), Context(TRUE, NoId), Context(FALSE, HostRecordId)}

\* before init: this._context is undefined
NoContext == [inited |-> FALSE, webAPI |-> FALSE, id |-> NoId]

\* this._recordsCache: null, or the array of cached records
Cache(set, records) == [set |-> set, records |-> records]

\* a call: where it stands (new, awaiting the Web API, done), what it was
\* given, the query it issued, how the Web API settled (none, ok, failed),
\* the result it resolved to, and the ids of the array holding the fetched
\* records before the stages of the call ran (fetched) and when the call
\* returned (array)
Call(status, req, filter, query, settled, result, fetched, array) ==
    [status |-> status, req |-> req, filter |-> filter, query |-> query,
     settled |-> settled, result |-> result, fetched |-> fetched, array |-> array]

NewCall == Call("new", NoRequest, NoFilter, NoQuery, "none", NoResult, <<>>, <<>>)

CallIds == 1..MaxCalls

\* a getRecordUX call of the host: how it ended (none: no call yet,
\* returned, threw), the record it was given and the display record returned
UXCall(status, record, display) == [status |-> status, record |-> record, display |-> display]

NoDisplay == [id |-> NoId]

NoUX == UXCall("none", Record(NoId, 0, MalformedPayload), NoDisplay)

\* a second instance: its this._context, this.accountId, this._recordsCache,
\* the queries it sent, and whether a getRecordsData of it awaits the Web API
Peer(ctx, account, cache, fetches, status) ==
    [context |-> ctx, accountId |-> account, recordsCache |-> cache,
     fetchCount |-> fetches, status |-> status]

NoPeer == Peer(NoContext, NoId, Cache(FALSE, <<>>), 0, "idle")

\* one run of the stages on a copy of the cache: recordsData and the stages
\* applied to it so far
Run(recordsData, applied) == [recordsData |-> recordsData, applied |-> applied]

\* two runs on the same copy with the same keyword and filterData: one
\* applies _applySearch first, the other _applyFilters first
Staged(recordsData, keyword, filterData) ==
    [input |-> recordsData, keyword |-> keyword, filterData |-> filterData,
     searchFirst |-> Run(recordsData, <<>>), filterFirst |-> Run(recordsData, <<>>)]

NoStaged == Staged(<<>>, EmptyText, <<>>)

\* what the host asks in the behaviours of Spec, where calls overlap
Requests(c) ==
    { Request(RequestIdOf(c), 2, asc, cur, EmptyText) :
        asc \in BOOLEAN, cur \in {NoId, "A", "Z"} }

Filters == { Filter(k, fd) : k \in {EmptyText, <<"s", "h">>},
                             fd \in { <<>>, <<StatusGroup(FALSE, FALSE)>>,
                                      <<StatusGroup(TRUE, FALSE)>> } }

\* what the host asks in the behaviours of SpecQuery, where one call is
\* followed through every combination of its parameters
PageSizes == {1, 2, DefaultPageSize}

Cursors == {NoId, "A", "B", "C", "Z"}

Keywords == {EmptyText, <<"s", "h">>}

FilterDatas ==
    { <<>>, <<StatusGroup(FALSE, FALSE)>>, <<StatusGroup(TRUE, FALSE)>>,
      <<StatusGroup(TRUE, TRUE)>> }

QueryRequests ==
    { Request(RequestIdOf(1), ps, asc, cur, kw) :
        ps \in PageSizes, asc \in BOOLEAN, cur \in Cursors, kw \in Keywords }

QueryFilters == { Filter(k, fd) : k \in Keywords, fd \in FilterDatas }

Init ==
    /\ cls \in Classes
    /\ store \in Stores
    /\ context = NoContext
    /\ accountId = NoId
    /\ recordsCache = Cache(FALSE, <<>>)
    /\ calls = [c \in CallIds |-> NewCall]
    /\ fetchCount = 0
    /\ ux = NoUX
    /\ peer = NoPeer
    /\ staged = NoStaged

\* ---------------------------------------------------------------- actions

\* an init that keeps the context in a variable of the shared namespace, so
\* that every instance sees the context last stored
AdapterInitSharedContext(ctx, xrmPageId) ==
    /\ ~context.inited
    /\ context' = ctx
    /\ peer' = [peer EXCEPT !.context = ctx]
    /\ accountId' = IF cls = "VirtualEntity" THEN InitAccountId(ctx, xrmPageId) ELSE accountId
    /\ UNCHANGED <<cls, store, staged, ux, recordsCache, calls, fetchCount>>

\* init(ctx): stores the context; the virtual-entity source also derives
\* this.accountId from tableContext.id or the legacy page
AdapterInit(ctx, xrmPageId) ==
    /\ ~context.inited
    /\ context' = ctx
    /\ accountId' = IF cls = "VirtualEntity" THEN InitAccountId(ctx, xrmPageId) ELSE accountId
    /\ UNCHANGED <<cls, store, staged, ux, peer, recordsCache, calls, fetchCount>>

\* the call c suspends at `await ...retrieveMultipleRecords(entity, query)`
Await(c, req, filter, query) ==
    /\ calls' = [calls EXCEPT ![c] =
                    Call("awaiting", req, filter, query, "none", NoResult, <<>>, <<>>)]
    /\ fetchCount' = fetchCount + 1

\* the call c returns: its promise resolves to out.result
Return(c, req, filter, query, settled, fetched, out) ==
    calls' = [calls EXCEPT ![c] =
                Call("done", req, filter, query, settled, out.result, fetched, out.array)]

\* the next call the host may issue
IsNext(c) == calls[c].status = "new" /\ \A d \in 1..(c - 1) : calls[d].status # "new"

\* ShipmentRecordSource.getRecordsData up to its await; without a context or
\* a webAPI the call expression throws inside the try
ShipmentGetRecordsData(c, req, filter) ==
    /\ cls = "Shipment" /\ IsNext(c)
    /\ IF context.inited /\ context.webAPI
       THEN Await(c, req, filter, ShipmentQuery(req, filter))
       ELSE /\ Return(c, req, filter, NoQuery, "none", <<>>, ShipmentCatch)
            /\ UNCHANGED fetchCount
    /\ UNCHANGED <<cls, store, staged, ux, peer, context, accountId, recordsCache>>

ShipmentResolve(c) ==
    /\ cls = "Shipment" /\ calls[c].status = "awaiting"
    /\ LET entities == RetrieveMultipleRecords(store, calls[c].query)
       IN  Return(c, calls[c].req, calls[c].filter, calls[c].query, "ok",
                  IdsOf(ShipmentRecords(entities)), ShipmentReturn(calls[c].req, entities))
    /\ UNCHANGED <<cls, store, staged, ux, peer, context, accountId, recordsCache, fetchCount>>

ShipmentReject(c) ==
    /\ cls = "Shipment" /\ calls[c].status = "awaiting"
    /\ Return(c, calls[c].req, calls[c].filter, calls[c].query, "failed", <<>>, ShipmentCatch)
    /\ UNCHANGED <<cls, store, staged, ux, peer, context, accountId, recordsCache, fetchCount>>

\* VirtualEntitySecondaryRecordSource.getRecordsData up to the await inside
\* fetchAllRecords; without accountId it returns at once, without webAPI
\* fetchAllRecords returns its empty array
VirtualEntityGetRecordsData(c, request, filter) ==
    /\ cls = "VirtualEntity" /\ IsNext(c)
    /\ IF accountId = NoId
       THEN /\ Return(c, request, filter, NoQuery, "none", <<>>,
                      Outcome(VirtualEntityEmpty(request), <<>>))
            /\ UNCHANGED fetchCount
       ELSE IF ~context.webAPI
       THEN /\ Return(c, request, filter, NoQuery, "none", <<>>,
                      VirtualEntityPipeline(request, filter, <<>>))
            /\ UNCHANGED fetchCount
       ELSE Await(c, request, filter, VirtualEntityQuery(accountId))
    /\ UNCHANGED <<cls, store, staged, ux, peer, context, accountId, recordsCache>>

VirtualEntityResolve(c) ==
    /\ cls = "VirtualEntity" /\ calls[c].status = "awaiting"
    /\ LET recordsData == ProcessRecordsData(RetrieveMultipleRecords(store, calls[c].query))
       IN  Return(c, calls[c].req, calls[c].filter, calls[c].query, "ok",
                  IdsOf(recordsData),
                  VirtualEntityPipeline(calls[c].req, calls[c].filter, recordsData))
    /\ UNCHANGED <<cls, store, staged, ux, peer, context, accountId, recordsCache, fetchCount>>

\* the catch of fetchAllRecords: recordsData stays []
VirtualEntityReject(c) ==
    /\ cls = "VirtualEntity" /\ calls[c].status = "awaiting"
    /\ Return(c, calls[c].req, calls[c].filter, calls[c].query, "failed", <<>>,
              VirtualEntityPipeline(calls[c].req, calls[c].filter, <<>>))
    /\ UNCHANGED <<cls, store, staged, ux, peer, context, accountId, recordsCache, fetchCount>>

\* a getRecordsData whose cache hit keeps the filtered array as the cache
\* (`this._recordsCache = this._applyFilters(this._recordsCache, filter)`)
DocumentedGetRecordsDataFiltersCache(c, req, filter) ==
    /\ cls = "Documented" /\ IsNext(c)
    /\ IF recordsCache.set
       THEN /\ Return(c, req, filter, NoQuery, "none", IdsOf(recordsCache.records),
                      DocumentedPipeline(recordsCache.records, req, filter))
            /\ recordsCache' = Cache(TRUE, ApplyFilters(recordsCache.records, filter.filterData))
            /\ UNCHANGED fetchCount
       ELSE IF ~(context.inited /\ context.webAPI)
       THEN /\ recordsCache' = Cache(TRUE, <<>>)
            /\ Return(c, req, filter, NoQuery, "none", <<>>,
                      DocumentedPipeline(<<>>, req, filter))
            /\ UNCHANGED fetchCount
       ELSE /\ Await(c, req, filter, DocumentedQuery)
            /\ UNCHANGED recordsCache
    /\ UNCHANGED <<cls, store, staged, ux, peer, context, accountId>>

\* the documented getRecordsData up to its await: a cache hit runs the stages
\* at once; on a miss _fetchAllRecords is awaited, and without a context or a
\* webAPI its catch returns [], which becomes the cache
DocumentedGetRecordsData(c, req, filter) ==
    /\ cls = "Documented" /\ IsNext(c)
    /\ IF recordsCache.set
       THEN /\ Return(c, req, filter, NoQuery, "none", IdsOf(recordsCache.records),
                      DocumentedPipeline(recordsCache.records, req, filter))
            /\ UNCHANGED <<recordsCache, fetchCount>>
       ELSE IF ~(context.inited /\ context.webAPI)
       THEN /\ recordsCache' = Cache(TRUE, <<>>)
            /\ Return(c, req, filter, NoQuery, "none", <<>>,
                      DocumentedPipeline(<<>>, req, filter))
            /\ UNCHANGED fetchCount
       ELSE /\ Await(c, req, filter, DocumentedQuery)
            /\ UNCHANGED recordsCache
    /\ UNCHANGED <<cls, store, staged, ux, peer, context, accountId>>

\* this._recordsCache = await this._fetchAllRecords(), then the stages
DocumentedResolve(c) ==
    /\ cls = "Documented" /\ calls[c].status = "awaiting"
    /\ LET fetchedRecords == DocumentedRecords(RetrieveMultipleRecords(store, calls[c].query))
           out == DocumentedPipeline(fetchedRecords, calls[c].req, calls[c].filter)
       IN  /\ recordsCache' = Cache(TRUE, fetchedRecords)
           /\ Return(c, calls[c].req, calls[c].filter, calls[c].query, "ok",
                     IdsOf(fetchedRecords), out)
    /\ UNCHANGED <<cls, store, staged, ux, peer, context, accountId, fetchCount>>

\* a failure handling that resets this._recordsCache to null
DocumentedRejectResetsCache(c) ==
    /\ cls = "Documented" /\ calls[c].status = "awaiting"
    /\ recordsCache' = Cache(FALSE, <<>>)
    /\ Return(c, calls[c].req, calls[c].filter, calls[c].query, "failed", <<>>,
              DocumentedPipeline(<<>>, calls[c].req, calls[c].filter))
    /\ UNCHANGED <<cls, store, staged, ux, peer, context, accountId, fetchCount>>

\* the catch of _fetchAllRecords returns [], which becomes the cache
DocumentedReject(c) ==
    /\ cls = "Documented" /\ calls[c].status = "awaiting"
    /\ recordsCache' = Cache(TRUE, <<>>)
    /\ Return(c, calls[c].req, calls[c].filter, calls[c].query, "failed", <<>>,
              DocumentedPipeline(<<>>, calls[c].req, calls[c].filter))
    /\ UNCHANGED <<cls, store, staged, ux, peer, context, accountId, fetchCount>>

\* the calls the host makes in the behaviours of Spec: two, which may overlap
OverlapCalls == {1, 2}

Next ==
    \/ \E ctx \in Contexts, x \in XrmPageIds : AdapterInit(ctx, x)
    \/ \E c \in OverlapCalls : \E req \in Requests(c), filter \in Filters :
          ShipmentGetRecordsData(c, req, filter)
    \/ \E c \in OverlapCalls : ShipmentResolve(c)
    \/ \E c \in OverlapCalls : ShipmentReject(c)
    \/ \E c \in OverlapCalls : \E req \in Requests(c), filter \in Filters :
          VirtualEntityGetRecordsData(c, req, filter)
    \/ \E c \in OverlapCalls : VirtualEntityResolve(c)
    \/ \E c \in OverlapCalls : VirtualEntityReject(c)
    \/ \E c \in OverlapCalls : \E req \in Requests(c), filter \in Filters :
          DocumentedGetRecordsData(c, req, filter)
    \/ \E c \in OverlapCalls : DocumentedResolve(c)
    \/ \E c \in OverlapCalls : DocumentedReject(c)

Spec == Init /\ [][Next]_vars

\* one call, with every combination of the request and filter parameters
NextQuery ==
    \/ \E ctx \in Contexts, x \in XrmPageIds : AdapterInit(ctx, x)
    \/ \E req \in QueryRequests, filter \in QueryFilters :
          ShipmentGetRecordsData(1, req, filter)
    \/ ShipmentResolve(1)
    \/ ShipmentReject(1)
    \/ \E req \in QueryRequests, filter \in QueryFilters :
          VirtualEntityGetRecordsData(1, req, filter)
    \/ VirtualEntityResolve(1)
    \/ VirtualEntityReject(1)
    \/ \E req \in QueryRequests, filter \in QueryFilters :
          DocumentedGetRecordsData(1, req, filter)
    \/ DocumentedResolve(1)
    \/ DocumentedReject(1)

SpecQuery == Init /\ [][NextQuery]_vars

\* the sort stage over every short array of records: the stores hold up to
\* SortLen rows of the host record, each created on a day of 1..MaxDay or
\* without createdon (0)
SortLen == 3

MaxDay == 3

SortIds == <<"A", "B", "C", "D">>

SortStores ==
    UNION { { [crbff_shipments |->
                  [i \in 1..n |-> Shipment(SortIds[i], <<"x">>, Shipped, <<"r">>, <<"t">>,
                                           days[i])],
               email |-> [i \in 1..n |-> Email(SortIds[i], days[i], HostRecordId, 1)]] :
              days \in [1..n -> 0..MaxDay] } : n \in 0..SortLen }

\* a first page that holds the whole sorted array
SortRequests ==
    { Request(RequestIdOf(1), DefaultPageSize, asc, NoId, EmptyText) : asc \in BOOLEAN }

InitSort ==
    /\ cls \in {"VirtualEntity", "Documented"}
    /\ store \in SortStores
    /\ context = NoContext
    /\ accountId = NoId
    /\ recordsCache = Cache(FALSE, <<>>)
    /\ calls = [c \in CallIds |-> NewCall]
    /\ fetchCount = 0
    /\ ux = NoUX
    /\ peer = NoPeer
    /\ staged = NoStaged

\* the calls the host makes in the behaviours of SpecSort
SortCalls == {1, 2}

\* the request req as the call c carries it
AsCall(req, c) == [req EXCEPT !.requestId = RequestIdOf(c)]

NextSort ==
    \/ \E ctx \in Contexts, x \in XrmPageIds : AdapterInit(ctx, x)
    \/ \E c \in SortCalls : \E req \in SortRequests :
          VirtualEntityGetRecordsData(c, AsCall(req, c), NoFilter)
    \/ \E c \in SortCalls : VirtualEntityResolve(c)
    \/ \E c \in SortCalls : VirtualEntityReject(c)
    \/ \E c \in SortCalls : \E req \in SortRequests :
          DocumentedGetRecordsData(c, AsCall(req, c), NoFilter)
    \/ \E c \in SortCalls : DocumentedResolve(c)
    \/ \E c \in SortCalls : DocumentedReject(c)

SpecSort == InitSort /\ [][NextSort]_vars

\* getRecordUX(data) called by the host: JSON.parse(data.data) throws on a
\* data that is no JSON text and this._context.factory throws before init;
\* the method has no try/catch
GetRecordUXCall(data) ==
    /\ cls # "VirtualEntity"
    /\ ux' = IF ParseThrows(data.data) \/ ~context.inited
             THEN UXCall("threw", data, NoDisplay)
             ELSE UXCall("returned", data, GetRecordUX(data))
    /\ UNCHANGED <<cls, store, staged, peer, context, accountId, recordsCache, calls, fetchCount>>

\* the records the host may hand to getRecordUX: the records of the
\* collection, and one whose data is no JSON text
UXRecords ==
    { ShipmentRecords(RetrieveMultipleRecords(store, DocumentedQuery))[i] :
        i \in 1..Len(store.crbff_shipments) }
      \cup { Record("M", FetchTimeNow, MalformedPayload) }

InitUX == Init /\ cls # "VirtualEntity"

\* the host fetches a first page and asks for the display of records
NextUX ==
    \/ \E ctx \in Contexts, x \in XrmPageIds : AdapterInit(ctx, x)
    \/ \E data \in UXRecords : GetRecordUXCall(data)
    \/ \E req \in SortRequests : ShipmentGetRecordsData(1, req, NoFilter)
    \/ ShipmentResolve(1)
    \/ ShipmentReject(1)
    \/ \E req \in SortRequests : DocumentedGetRecordsData(1, req, NoFilter)
    \/ DocumentedResolve(1)
    \/ DocumentedReject(1)

SpecUX == InitUX /\ [][NextUX]_vars

\* the Web API settles the query of the call c: its promise resolves or rejects
Settle(c) ==
    \/ ShipmentResolve(c) \/ ShipmentReject(c)
    \/ VirtualEntityResolve(c) \/ VirtualEntityReject(c)
    \/ DocumentedResolve(c) \/ DocumentedReject(c)

\* two calls for a first page, on an instance of any class
NextSettling ==
    \/ \E ctx \in Contexts, x \in XrmPageIds : AdapterInit(ctx, x)
    \/ \E c \in SortCalls : \E req \in SortRequests :
          ShipmentGetRecordsData(c, AsCall(req, c), NoFilter)
    \/ \E c \in SortCalls : ShipmentResolve(c)
    \/ \E c \in SortCalls : ShipmentReject(c)
    \/ \E c \in SortCalls : \E req \in SortRequests :
          VirtualEntityGetRecordsData(c, AsCall(req, c), NoFilter)
    \/ \E c \in SortCalls : VirtualEntityResolve(c)
    \/ \E c \in SortCalls : VirtualEntityReject(c)
    \/ \E c \in SortCalls : \E req \in SortRequests :
          DocumentedGetRecordsData(c, AsCall(req, c), NoFilter)
    \/ \E c \in SortCalls : DocumentedResolve(c)
    \/ \E c \in SortCalls : DocumentedReject(c)

\* the behaviours in which every remote query eventually settles
SpecSettling ==
    Init /\ [][NextSettling]_vars /\ \A c \in SortCalls : WF_vars(Settle(c))

\* three calls for a first page, each with a direction and a status
\* selection of its own, on an instance of any class
RepeatRequests(c) ==
    { Request(RequestIdOf(c), 2, asc, NoId, EmptyText) : asc \in BOOLEAN }

RepeatFilters == { NoFilter, Filter(EmptyText, <<StatusGroup(TRUE, FALSE)>>) }

NextRepeat ==
    \/ \E ctx \in Contexts, x \in XrmPageIds : AdapterInit(ctx, x)
    \/ \E c \in CallIds : \E req \in RepeatRequests(c), filter \in RepeatFilters :
          ShipmentGetRecordsData(c, req, filter)
    \/ \E c \in CallIds : ShipmentResolve(c)
    \/ \E c \in CallIds : ShipmentReject(c)
    \/ \E c \in CallIds : \E req \in RepeatRequests(c), filter \in RepeatFilters :
          VirtualEntityGetRecordsData(c, req, filter)
    \/ \E c \in CallIds : VirtualEntityResolve(c)
    \/ \E c \in CallIds : VirtualEntityReject(c)
    \/ \E c \in CallIds : \E req \in RepeatRequests(c), filter \in RepeatFilters :
          DocumentedGetRecordsData(c, req, filter)
    \/ \E c \in CallIds : DocumentedResolve(c)
    \/ \E c \in CallIds : DocumentedReject(c)

SpecRepeat == Init /\ [][NextRepeat]_vars

\* a store with one row more than the default page size, for the host record
LongIds == <<"A", "B", "C", "D", "E", "F", "G", "H", "I", "J", "K">>

LongStore ==
    [crbff_shipments |->
        [i \in 1..(DefaultPageSize + 1) |->
            Shipment(LongIds[i], <<"t", "x">>, IF i % 2 = 0 THEN Shipped ELSE Delivered,
                     <<"r", "x">>, <<"k", "x">>, (i % 3) + 1)],
     email |->
        [i \in 1..(DefaultPageSize + 1) |->
            Email(LongIds[i], (i % 3) + 1, HostRecordId, 1)]]

\* one call for a first page, with a page size, with pageSize 0 or without
\* the property
PagedRequests ==
    { Request(RequestIdOf(1), ps, asc, NoId, EmptyText) :
        ps \in {NoPageSize, 0, 2, DefaultPageSize}, asc \in BOOLEAN }

PagedFilters == { NoFilter, Filter(EmptyText, <<StatusGroup(TRUE, FALSE)>>) }

InitPaged ==
    /\ cls \in Classes
    /\ store \in Stores \cup {LongStore}
    /\ context = NoContext
    /\ accountId = NoId
    /\ recordsCache = Cache(FALSE, <<>>)
    /\ calls = [c \in CallIds |-> NewCall]
    /\ fetchCount = 0
    /\ ux = NoUX
    /\ peer = NoPeer
    /\ staged = NoStaged

NextPaged ==
    \/ \E ctx \in Contexts, x \in XrmPageIds : AdapterInit(ctx, x)
    \/ \E req \in PagedRequests, filter \in PagedFilters :
          ShipmentGetRecordsData(1, req, filter)
    \/ ShipmentResolve(1)
    \/ ShipmentReject(1)
    \/ \E req \in PagedRequests, filter \in PagedFilters :
          VirtualEntityGetRecordsData(1, req, filter)
    \/ VirtualEntityResolve(1)
    \/ VirtualEntityReject(1)
    \/ \E req \in PagedRequests, filter \in PagedFilters :
          DocumentedGetRecordsData(1, req, filter)
    \/ DocumentedResolve(1)
    \/ DocumentedReject(1)

SpecPaged == InitPaged /\ [][NextPaged]_vars

\* the host calls getRecordsData once before init, then init, then once more;
\* the second call of the documented class never awaits the Web API, since
\* the first call has set the cache
NextEarly ==
    \/ /\ ~context.inited
       /\ \E req \in Requests(1), filter \in Filters :
             \/ ShipmentGetRecordsData(1, req, filter)
             \/ VirtualEntityGetRecordsData(1, req, filter)
             \/ DocumentedGetRecordsData(1, req, filter)
    \/ /\ calls[1].status = "done"
       /\ \E ctx \in Contexts, x \in XrmPageIds : AdapterInit(ctx, x)
    \/ /\ context.inited
       /\ \E req \in Requests(2), filter \in Filters :
             \/ ShipmentGetRecordsData(2, req, filter)
             \/ VirtualEntityGetRecordsData(2, req, filter)
             \/ DocumentedGetRecordsData(2, req, filter)
    \/ ShipmentResolve(2) \/ ShipmentReject(2)
    \/ VirtualEntityResolve(2) \/ VirtualEntityReject(2)

SpecEarly == Init /\ [][NextEarly]_vars

\* the stages 3 and 4 on their own, over every short array of records
StageLen == 3

\* a row without title: its searchable text starts with the word undefined
ShipD == Shipment("D", Undefined, Delivered, <<"r", "d">>, <<"s", "h">>, 2)

StageRows == {ShipA, ShipB, ShipC, ShipD}

\* the arrays of up to StageLen different rows, as the fetch stage caches them
StageInputs ==
    { DocumentedRecords([i \in 1..Len(rows) |-> SelectedColumns(rows[i])]) :
        rows \in { r \in UNION { [1..n -> StageRows] : n \in 0..StageLen } :
                     \A i, j \in 1..Len(r) : i # j => r[i] # r[j] } }

StageKeywords == { EmptyText, <<"s", "h">>, <<"D", "e">>, <<"x">>, <<"r", "a">> }

InitStages ==
    /\ cls = "Documented"
    /\ store \in Stores
    /\ context = NoContext
    /\ accountId = NoId
    /\ recordsCache = Cache(FALSE, <<>>)
    /\ calls = [c \in CallIds |-> NewCall]
    /\ fetchCount = 0
    /\ ux = NoUX
    /\ peer = NoPeer
    /\ staged \in { Staged(recordsData, keyword, filterData) :
                       recordsData \in StageInputs, keyword \in StageKeywords,
                       filterData \in FilterDatas }

\* recordsData = this._applySearch(recordsData, keyword) in the run `order`
SearchStage(order) ==
    /\ staged[order].applied = (IF order = "searchFirst" THEN <<>> ELSE <<"filter">>)
    /\ staged' = [staged EXCEPT ![order] =
                     Run(ApplySearch(@.recordsData, staged.keyword),
                         Append(@.applied, "search"))]
    /\ UNCHANGED <<cls, store, context, accountId, recordsCache, calls, fetchCount, ux, peer>>

\* recordsData = this._applyFilters(recordsData, filterData) in the run `order`
FiltersStage(order) ==
    /\ staged[order].applied = (IF order = "filterFirst" THEN <<>> ELSE <<"search">>)
    /\ staged' = [staged EXCEPT ![order] =
                     Run(ApplyFilters(@.recordsData, staged.filterData),
                         Append(@.applied, "filter"))]
    /\ UNCHANGED <<cls, store, context, accountId, recordsCache, calls, fetchCount, ux, peer>>

NextStages ==
    \/ \E order \in {"searchFirst", "filterFirst"} : SearchStage(order)
    \/ \E order \in {"searchFirst", "filterFirst"} : FiltersStage(order)

SpecStages == InitStages /\ [][NextStages]_vars

\* init(ctx) of the second instance
PeerInit(ctx, xrmPageId) ==
    /\ ~peer.context.inited
    /\ peer' = [peer EXCEPT
                  !.context = ctx,
                  !.accountId = IF cls = "VirtualEntity"
                                THEN InitAccountId(ctx, xrmPageId) ELSE @]
    /\ UNCHANGED <<cls, store, staged, ux, context, accountId, recordsCache, calls, fetchCount>>

\* the second instance's getRecordsData awaits the Web API
PeerFetches ==
    IF cls = "Shipment" THEN peer.context.inited /\ peer.context.webAPI
    ELSE IF cls = "VirtualEntity" THEN peer.accountId # NoId /\ peer.context.webAPI
    ELSE ~peer.recordsCache.set /\ peer.context.inited /\ peer.context.webAPI

\* getRecordsData of the second instance up to its await, as far as it
\* touches the instance: the query counted, or the documented cache set to
\* the [] of a fetch that could not start
PeerGetRecordsData ==
    /\ peer.status = "idle" /\ peer.fetchCount < MaxCalls
    /\ peer' = IF PeerFetches
               THEN [peer EXCEPT !.status = "awaiting", !.fetchCount = @ + 1]
               ELSE IF cls = "Documented" /\ ~peer.recordsCache.set
               THEN [peer EXCEPT !.recordsCache = Cache(TRUE, <<>>)]
               ELSE peer
    /\ UNCHANGED <<cls, store, staged, ux, context, accountId, recordsCache, calls, fetchCount>>

\* the query of the second instance settles; the documented class caches
\* the records, or the [] of the catch
PeerSettle(ok) ==
    /\ peer.status = "awaiting"
    /\ peer' = [peer EXCEPT
                  !.status = "idle",
                  !.recordsCache =
                      IF cls # "Documented" THEN @
                      ELSE IF ok
                      THEN Cache(TRUE, DocumentedRecords(
                                          RetrieveMultipleRecords(store, DocumentedQuery)))
                      ELSE Cache(TRUE, <<>>)]
    /\ UNCHANGED <<cls, store, staged, ux, context, accountId, recordsCache, calls, fetchCount>>

\* two instances of one class, each initialized and asked for a first page
NextPair ==
    \/ \E ctx \in Contexts, x \in XrmPageIds : AdapterInit(ctx, x)
    \/ \E req \in SortRequests : ShipmentGetRecordsData(1, req, NoFilter)
    \/ ShipmentResolve(1)
    \/ ShipmentReject(1)
    \/ \E req \in SortRequests : VirtualEntityGetRecordsData(1, req, NoFilter)
    \/ VirtualEntityResolve(1)
    \/ VirtualEntityReject(1)
    \/ \E req \in SortRequests : DocumentedGetRecordsData(1, req, NoFilter)
    \/ DocumentedResolve(1)
    \/ DocumentedReject(1)
    \/ \E ctx \in Contexts, x \in XrmPageIds : PeerInit(ctx, x)
    \/ PeerGetRecordsData
    \/ \E ok \in BOOLEAN : PeerSettle(ok)

SpecPair == Init /\ [][NextPair]_vars

\* ------------------------------------------------- what the claims speak of

\* the classes the scripts of the repository define
ScriptClasses == {"Shipment", "VirtualEntity"}

Done(c) == calls[c].status = "done"

\* the call c got the answer of the Web API
Answered(c) == Done(c) /\ calls[c].settled = "ok"

\* the snapshot: all records of the instance's collection, normalized, in
\* the order the backing store returns them
Snapshot ==
    IF cls = "VirtualEntity"
    THEN ProcessRecordsData(RetrieveMultipleRecords(store, VirtualEntityQuery(accountId)))
    ELSE DocumentedRecords(RetrieveMultipleRecords(store, DocumentedQuery))

\* the facet options of the call c that are selected
Selected(c) == SelectedValues(calls[c].filter.filterData)

\* an email record has no title, status, recipient or tracking field, so for
\* the virtual-entity source only the calls without keyword and without
\* facet selection have a defined filtered sequence
Comparable(c) ==
    cls = "VirtualEntity" =>
        /\ ~Truthy(calls[c].filter.searchKey)
        /\ calls[c].filter.filterData = <<>>

\* the searchable text (title, status, recipient, tracking) of the entity
\* contains k, case-insensitively
SearchableTextContains(entity, k) ==
    LET text == ToLowerCase(entity.crbff_title \o <<" ">> \o entity.crbff_field1 \o <<" ">>
                              \o entity.crbff_field3 \o <<" ">> \o entity.crbff_field4)
        key == ToLowerCase(k)
    IN  \E i \in 1..Len(text) : \E j \in i..Len(text) : SubSeq(text, i, j) = key

\* the filtered-and-sorted sequence of the call c: the snapshot after the
\* search filter (filter.searchKey), the facet filter and the sort
FilteredSorted(c) == DocumentedRecordsData(Snapshot, calls[c].req, calls[c].filter)

\* the index (from 0) at which the window of the call c starts
CursorStart(c) ==
    LET i == IF calls[c].req.lastItem = NoId THEN -1
             ELSE FindIndex(FilteredSorted(c), calls[c].req.lastItem)
    IN  IF i = -1 THEN 0 ELSE i + 1

\* the cursor of the call c is a record of its filtered-and-sorted sequence
CursorPresent(c) ==
    /\ calls[c].req.lastItem # NoId
    /\ FindIndex(FilteredSorted(c), calls[c].req.lastItem) # -1

\* the cursor of the call c is given but is no record of the sequence
CursorAbsent(c) ==
    /\ calls[c].req.lastItem # NoId
    /\ FindIndex(FilteredSorted(c), calls[c].req.lastItem) = -1

\* the records from the window start on, at most pageSize of them
ExpectedPage(c) ==
    Slice(FilteredSorted(c), CursorStart(c), CursorStart(c) + calls[c].req.pageSize)

\* ------------------------------------------------------------------ claims

\* C1: over any sequence of getRecordsData calls on one adapter instance the
\* remote query method webAPI.retrieveMultipleRecords is invoked at most once.
C1_AtMostOneFetch == cls \in ScriptClasses => fetchCount <= 1

\* C2: when a second getRecordsData call starts while the fetch of the first
\* is still in flight, no second remote fetch is issued: the number of remote
\* invocations stays at 1.
C2_OverlappingCallsShareFetch ==
    \A c \in CallIds : \A d \in CallIds :
        (c < d /\ calls[c].status = "awaiting" /\ calls[d].status # "new")
            => fetchCount = 1

\* C3: the array that holds the fetched records keeps the ids, in count and
\* order, that it had right after the fetch: search, filter, sort and slice
\* operate on a copy of it and never reorder or shrink it.
C3_SnapshotUnchanged ==
    \A c \in CallIds : Done(c) => calls[c].array = calls[c].fetched

\* C4: on an internal failure (here: the remote query fails) getRecordsData
\* resolves to a result whose records is the empty sequence and whose
\* hasMoreRecords is false.
C4_FailureGivesEmptyPage ==
    \A c \in CallIds :
        (Done(c) /\ calls[c].settled = "failed")
            => /\ calls[c].result.records = <<>>
               /\ calls[c].result.hasMoreRecords = "false"

\* C5: every result of getRecordsData, on the success path and on every
\* failure or early-return path, carries the requestId of its request.
C5_RequestIdEchoed ==
    \A c \in CallIds : Done(c) => calls[c].result.requestId = calls[c].req.requestId

\* C6: hasMoreRecords is true if and only if the filtered-and-sorted sequence
\* has records beyond the returned slice, that is, its length exceeds
\* cursorStartIndex + returnedCount.
C6_MoreAvailableExact ==
    \A c \in CallIds :
        (Answered(c) /\ Comparable(c))
            => ((calls[c].result.hasMoreRecords = "true")
                  <=> (Len(FilteredSorted(c)) > CursorStart(c) + Len(calls[c].result.records)))

\* C7: when the cursor (lastItem) is in the filtered-and-sorted sequence at
\* index i, the page is exactly the records at the indices i+1 .. i+pageSize
\* of that sequence (fewer when it ends), in order.
C7_PageFollowsCursor ==
    \A c \in CallIds :
        (Answered(c) /\ Comparable(c) /\ CursorPresent(c))
            => IdsOf(calls[c].result.records) = IdsOf(ExpectedPage(c))

\* C8: a request whose cursor id is not in the current filtered-and-sorted
\* sequence gets the same records and the same hasMoreRecords as the same
\* request without cursor.
C8_AbsentCursorRestarts ==
    \A c \in CallIds : \A d \in CallIds :
        ( /\ Answered(c) /\ Answered(d) /\ Comparable(c)
          /\ CursorAbsent(c)
          /\ calls[d].req.lastItem = NoId
          /\ calls[d].filter = calls[c].filter
          /\ calls[d].req.pageSize = calls[c].req.pageSize
          /\ calls[d].req.isAscending = calls[c].req.isAscending
          /\ calls[d].req.searchKeyword = calls[c].req.searchKeyword )
            => /\ IdsOf(calls[c].result.records) = IdsOf(calls[d].result.records)
               /\ calls[c].result.hasMoreRecords = calls[d].result.hasMoreRecords

\* C9: the records returned are the snapshot after, in this order, the search
\* filter, the facet filter, the sort and the cursor pagination, the cursor
\* being located in the filtered-and-sorted sequence.
C9_PipelineOrder ==
    \A c \in CallIds :
        (Answered(c) /\ Comparable(c))
            => IdsOf(calls[c].result.records) = IdsOf(ExpectedPage(c))

\* C10: for every keyword k the search stage keeps, in their order, exactly
\* the records whose searchable text (title, status, recipient, tracking)
\* contains k case-insensitively; without keyword it keeps all. Read on the
\* calls of the shipment source that select no facet, with the keyword its
\* search reads (req.searchKeyword) and the $top the query carries.
C10_SearchIsExactFilter ==
    \A c \in CallIds :
        (cls = "Shipment" /\ Answered(c) /\ Len(Selected(c)) = 0)
            => LET k == calls[c].req.searchKeyword
                   Hit(rec) == ~Truthy(k) \/ SearchableTextContains(JSONParse(rec.data), k)
               IN  IdsOf(calls[c].result.records)
                     = IdsOf(Top(SelectSeq(Snapshot, Hit), calls[c].req.pageSize))

\* the calls c and d were given the same request (but for its requestId)
SameRequest(c, d) ==
    /\ calls[c].req.pageSize = calls[d].req.pageSize
    /\ calls[c].req.isAscending = calls[d].req.isAscending
    /\ calls[c].req.lastItem = calls[d].req.lastItem
    /\ calls[c].req.searchKeyword = calls[d].req.searchKeyword

\* the calls c and d returned the same page
SamePage(c, d) ==
    /\ IdsOf(calls[c].result.records) = IdsOf(calls[d].result.records)
    /\ calls[c].result.hasMoreRecords = calls[d].result.hasMoreRecords

\* C11: when no facet option is selected, also when filterData lists groups
\* none of whose options is selected, the facet stage keeps every record:
\* the call returns the page the same request returns without filterData.
C11_NoSelectionKeepsAll ==
    \A c, d \in CallIds :
        ( /\ Answered(c) /\ Answered(d)
          /\ calls[c].filter.filterData # <<>>
          /\ Len(Selected(c)) = 0
          /\ calls[d].filter.filterData = <<>>
          /\ calls[c].filter.searchKey = calls[d].filter.searchKey
          /\ SameRequest(c, d) )
            => SamePage(c, d)

\* C12: when at least one option is selected, in whatever groups, the facet
\* stage keeps exactly the records whose status is one of the selected
\* values, two or more selected values included. Read on the calls of the
\* shipment classes without keyword and without cursor: the page is the
\* first pageSize of the snapshot's records of a selected status, sorted.
C12_SelectedStatusesKept ==
    \A c \in CallIds :
        ( /\ cls # "VirtualEntity"
          /\ Answered(c)
          /\ Len(Selected(c)) > 0
          /\ ~Truthy(calls[c].filter.searchKey)
          /\ ~Truthy(calls[c].req.searchKeyword)
          /\ calls[c].req.lastItem = NoId )
            => LET Kept(rec) == \E i \in 1..Len(Selected(c)) :
                                   JSONParse(rec.data).crbff_field1 = Selected(c)[i]
                   sorted == SortRecords(SelectSeq(Snapshot, Kept), calls[c].req.isAscending)
               IN  IdsOf(calls[c].result.records)
                     = IdsOf(Slice(sorted, 0, calls[c].req.pageSize))

\* the records of the page of the call c are in sortKey order, each pair of
\* records that both have a sortKey taken
InSortKeyOrder(c) ==
    LET records == calls[c].result.records
    IN  \A i, j \in 1..Len(records) :
            (i < j /\ records[i].sortDateValue # 0 /\ records[j].sortDateValue # 0)
                => IF calls[c].req.isAscending
                   THEN records[i].sortDateValue <= records[j].sortDateValue
                   ELSE records[i].sortDateValue >= records[j].sortDateValue

\* the page of the call c holds each record of the snapshot once
IsPermutationOfSnapshot(c) ==
    /\ Len(calls[c].result.records) = Len(Snapshot)
    /\ \A i \in 1..Len(Snapshot) :
          \E j \in 1..Len(Snapshot) : calls[c].result.records[j].id = Snapshot[i].id

\* every record of the snapshot has a sortKey
AllSortKeysPresent == \A i \in 1..Len(Snapshot) : Snapshot[i].sortDateValue # 0

NoHostRecordId ==
    /\ context.inited
    /\ context.id = NoId
    /\ cls = "VirtualEntity" => accountId = NoId

\* C14: when init found no host record id, every getRecordsData call made
\* afterwards resolves to empty records; none returns records of the
\* backing store.
C14_NoHostIdGivesEmpty ==
    NoHostRecordId => \A c \in CallIds : Done(c) => calls[c].result.records = <<>>

\* C15: the query sent to the Web API does not depend on the search
\* keyword, the facet selection, the sort direction, the page size or the
\* cursor of the call: any two calls of an instance that query the Web API
\* send the same query.
C15_QueryIgnoresParameters ==
    \A c, d \in CallIds :
        (calls[c].query # NoQuery /\ calls[d].query # NoQuery)
            => calls[c].query = calls[d].query

\* the snapshot of the scenario: A (Shipped, day 1), B (Delivered, day 3),
\* C (Shipped, day 2)
ScenarioSnapshot == store.crbff_shipments = <<ShipB, ShipA, ShipC>>

\* C16: on the snapshot A (Shipped, day 1), B (Delivered, day 3),
\* C (Shipped, day 2) a request with pageSize 10, ascending, returns
\* A, C, B with moreAvailable false when it has no cursor and no filter,
\* A, C when the facet Shipped is selected, and C, B when its cursor is A.
\* The virtual-entity source, whose records have no status, is read on the
\* requests without facet.
C16_ScenarioPages ==
    \A c \in CallIds :
        ( /\ ScenarioSnapshot /\ Answered(c)
          /\ calls[c].req.pageSize = DefaultPageSize
          /\ calls[c].req.isAscending
          /\ ~Truthy(calls[c].filter.searchKey)
          /\ ~Truthy(calls[c].req.searchKeyword) )
            => /\ (calls[c].req.lastItem = NoId /\ calls[c].filter.filterData = <<>>)
                    => /\ IdsOf(calls[c].result.records) = <<"A", "C", "B">>
                       /\ calls[c].result.hasMoreRecords = "false"
               /\ (calls[c].req.lastItem = NoId /\ Selected(c) = <<Shipped>>
                      /\ cls # "VirtualEntity")
                    => IdsOf(calls[c].result.records) = <<"A", "C">>
               /\ (calls[c].req.lastItem = "A" /\ calls[c].filter.filterData = <<>>)
                    => IdsOf(calls[c].result.records) = <<"C", "B">>

\* C17: getRecordUX never throws: given a record whose payload does not
\* deserialize it returns a display record of that record (with placeholder
\* text).
C17_GetRecordUXReturns ==
    (ux.status # "none" /\ ParseThrows(ux.record.data))
        => (ux.status = "returned" /\ ux.display.id = ux.record.id)

\* the single fetch of the instance has failed and its call has returned
FetchFailed(c) == fetchCount = 1 /\ Done(c) /\ calls[c].settled = "failed"

\* a step that starts the call d after the fetch of the call c failed sends
\* no query and returns at once, with no record
StartsAfterFailure(c, d) ==
    (FetchFailed(c) /\ calls[d].status = "new" /\ calls'[d].status # "new")
        => /\ fetchCount' = fetchCount
           /\ calls'[d].status = "done"
           /\ calls'[d].result.records = <<>>

\* C19: when the single remote fetch fails the adapter keeps an empty
\* snapshot: the failed call returns no record, every call started later
\* returns no record, and no later call sends the remote query again.
C19_FailedFetchIsFinal ==
    [][ \A c, d \in CallIds :
          /\ FetchFailed(c) => calls[c].result.records = <<>>
          /\ StartsAfterFailure(c, d) ]_vars

\* the call d asks for the page after the page of the call c, with another
\* filter than c had
NextPageOtherFilter(c, d) ==
    /\ c < d
    /\ Answered(c) /\ calls[c].result.records # <<>>
    /\ Done(d) /\ calls[d].settled # "failed"
    /\ calls[d].req.lastItem
         = calls[c].result.records[Len(calls[c].result.records)].id
    /\ calls[d].filter # calls[c].filter

\* C20: when the filter changes between two page requests and the cursor
\* record still belongs to the new filtered-and-sorted sequence, the next
\* page is exactly the records that follow the cursor in the new sequence.
C20_CursorSurvivesFilterChange ==
    \A c, d \in CallIds :
        (NextPageOtherFilter(c, d) /\ Comparable(d) /\ CursorPresent(d))
            => IdsOf(calls[d].result.records) = IdsOf(ExpectedPage(d))

\* the call c ran the sort stage on the records it fetched or found cached
SortRan(c) == Done(c) /\ calls[c].settled # "failed"

\* the position of the record id in the array the call c sorted
InputPosition(c, id) == CHOOSE i \in 1..Len(calls[c].fetched) : calls[c].fetched[i] = id

\* the records of the page of c that tie (equal sortKey, or both without
\* sortKey) stand in the order they had in the input
TiesKeepInputOrder(c) ==
    LET records == calls[c].result.records
    IN  \A i, j \in 1..Len(records) :
            (i < j /\ records[i].sortDateValue = records[j].sortDateValue)
                => InputPosition(c, records[i].id) < InputPosition(c, records[j].id)

PrimaryKey(row) == IF cls = "VirtualEntity" THEN row.activityid ELSE row.crbff_shipmentsid

\* the ids are defined and no two are the same
DefinedAndUnique(ids) ==
    /\ \A i \in 1..Len(ids) : ids[i] # NoId
    /\ \A i, j \in 1..Len(ids) : i # j => ids[i] # ids[j]

\* C22: in every snapshot made by normalizing the fetched raw items each
\* record's id is the primary key of its raw item, is defined, and is the id
\* of no other record of the snapshot.
C22_SnapshotIdsUnique ==
    /\ \A c \in CallIds :
          Answered(c) =>
              LET raw == RetrieveMultipleRecords(store, calls[c].query)
              IN  /\ calls[c].fetched = [i \in 1..Len(raw) |-> PrimaryKey(raw[i])]
                  /\ DefinedAndUnique(calls[c].fetched)
    /\ recordsCache.set => DefinedAndUnique(IdsOf(recordsCache.records))

\* a call of the shipment source normalized three raw items
C22_Witness ==
    \E c \in CallIds :
        cls = "Shipment" /\ Answered(c) /\ Len(calls[c].fetched) = 3

\* the rows of the collection the instance reads
SourceRows == IF cls = "VirtualEntity" THEN store.email ELSE store.crbff_shipments

\* the row of the backing store whose primary key is id
SourceRow(id) ==
    SourceRows[CHOOSE i \in 1..Len(SourceRows) : PrimaryKey(SourceRows[i]) = id]

\* C23: the sortKey of each record is the creation timestamp of its raw
\* item when the source has one, and the time of the fetch only when the
\* source has none. Read on the records a call returns.
C23_SortKeyFromCreation ==
    \A c \in CallIds :
        Answered(c) =>
            \A i \in 1..Len(calls[c].result.records) :
                LET rec == calls[c].result.records[i]
                    createdon == SourceRow(rec.id).createdon
                IN  rec.sortDateValue = IF createdon # 0 THEN createdon ELSE FetchTimeNow

\* C24: the snapshot cache is monotonic: once this._recordsCache holds a
\* snapshot, it holds one in every later state (no step resets it to
\* null); the instance has the one cache field, so at most one snapshot.
C24_CacheMonotonic == [][recordsCache.set => recordsCache'.set]_vars

\* a snapshot was installed by one call, and a later call was served from it
C24_Witness ==
    /\ recordsCache.set /\ recordsCache.records # <<>>
    /\ \E c, d \in CallIds :
          /\ c < d /\ Answered(c)
          /\ Done(d) /\ calls[d].query = NoQuery
          /\ calls[d].fetched = IdsOf(recordsCache.records)

\* the result of the call c is a well-formed page: it echoes the requestId,
\* has its records and a boolean hasMoreRecords
WellFormed(c) ==
    /\ calls[c].result.requestId = calls[c].req.requestId
    /\ calls[c].result.hasMoreRecords \in {"true", "false"}

\* C25: when every remote query eventually settles, every getRecordsData
\* call that was issued eventually resolves, with a well-formed, possibly
\* empty result.
C25_CallsResolveWellFormed ==
    \A c \in CallIds : (calls[c].status = "awaiting") ~> (Done(c) /\ WellFormed(c))

\* the fields of the first instance
FirstInstance == <<context, accountId, recordsCache, fetchCount>>

\* the fields of the second instance
SecondInstance == <<peer.context, peer.accountId, peer.recordsCache, peer.fetchCount>>

\* C26: two adapter instances share no mutable state: a step of init or
\* getRecordsData on one instance leaves the snapshot, the context and the
\* fetch count of the other instance as they were.
C26_InstancesIsolated ==
    [][ /\ (FirstInstance' # FirstInstance \/ calls' # calls)
            => SecondInstance' = SecondInstance
        /\ peer' # peer => FirstInstance' = FirstInstance ]_vars

\* both instances were initialized, with different contexts, and both have
\* queried the Web API; one holds records in its cache, the other an empty
\* cache
C26_Witness ==
    /\ cls = "Documented"
    /\ context.inited /\ peer.context.inited /\ context # peer.context
    /\ fetchCount = 1 /\ peer.fetchCount = 1
    /\ recordsCache.set /\ recordsCache.records = <<>>
    /\ peer.recordsCache.set /\ peer.recordsCache.records # <<>>

\* the call c asked for the first page and the call d, with the same
\* filter, direction and page size, for the page after it
ConsecutivePages(c, d) ==
    /\ c < d
    /\ Answered(c) /\ calls[c].req.lastItem = NoId
    /\ calls[c].result.records # <<>>
    /\ Done(d) /\ calls[d].settled # "failed"
    /\ calls[d].req.lastItem
         = calls[c].result.records[Len(calls[c].result.records)].id
    /\ calls[d].filter = calls[c].filter
    /\ calls[d].req.isAscending = calls[c].req.isAscending
    /\ calls[d].req.pageSize = calls[c].req.pageSize
    /\ calls[d].req.searchKeyword = calls[c].req.searchKeyword

\* C27: under a fixed filter and direction, the first page followed by the
\* page requested with the id of its last record as cursor are, put end to
\* end, the start of the filtered-and-sorted sequence: no record skipped,
\* none repeated, in order.
C27_PagesConcatenate ==
    \A c, d \in CallIds :
        (ConsecutivePages(c, d) /\ Comparable(c))
            => IdsOf(calls[c].result.records) \o IdsOf(calls[d].result.records)
                 = IdsOf(Slice(FilteredSorted(c), 0, 2 * calls[c].req.pageSize))

\* the page of the call c ends with the last record of its
\* filtered-and-sorted sequence
ReturnedLastRecord(c) ==
    /\ calls[c].result.records # <<>>
    /\ calls[c].result.records[Len(calls[c].result.records)].id
         = FilteredSorted(c)[Len(FilteredSorted(c))].id

\* C28: a host that asks for the next page as long as hasMoreRecords is
\* true stops after finitely many requests: the page that returns the last
\* record of the filtered-and-sorted sequence does not say that more
\* records are available.
C28_LastPageEndsPaging ==
    \A c \in CallIds :
        (Done(c) /\ calls[c].settled # "failed" /\ Comparable(c) /\ ReturnedLastRecord(c))
            => calls[c].result.hasMoreRecords # "true"

\* the call c worked on an array that held records: the rows a script
\* fetched for it, or the populated cache of the documented class
Populated(c) ==
    Done(c) /\ calls[c].settled # "failed" /\ calls[c].fetched # <<>>

InRequestedOrder(c, i, j) ==
    LET records == calls[c].result.records
    IN  IF calls[c].req.isAscending
        THEN records[i].sortDateValue <= records[j].sortDateValue
        ELSE records[i].sortDateValue >= records[j].sortDateValue

\* both records have a sortKey
BothKeyed(c, i, j) ==
    /\ calls[c].result.records[i].sortDateValue # 0
    /\ calls[c].result.records[j].sortDateValue # 0

\* the array the call c sorted holds a record without sortKey
SortedWithMissingKey(c) ==
    /\ SortRan(c)
    /\ \E i \in 1..Len(calls[c].result.records) :
          calls[c].result.records[i].sortDateValue = 0

C31_PageWithinPageSize ==
    \A c \in CallIds :
        Done(c) => Len(calls[c].result.records)
                     <= PageSizeOr(calls[c].req.pageSize, DefaultPageSize)

\* the call c, made before init, returned an empty well-formed result
EarlyCallEmpty(c) == WellFormed(c) /\ calls[c].result.records = <<>>

\* init was given a context with a webAPI and the id of the host record
ValidContext == context.inited /\ context.webAPI /\ context.id = HostRecordId

\* the call c asked for a first page without keyword or status selection
\* and its query, if it sent one, did not fail
PlainFirstPage(c) ==
    /\ Done(c) /\ calls[c].settled # "failed"
    /\ calls[c].req.lastItem = NoId
    /\ ~Truthy(calls[c].req.searchKeyword)
    /\ ~Truthy(calls[c].filter.searchKey)
    /\ calls[c].filter.filterData = <<>>

\* the page of the call c holds records, each one of the backing store
ReturnsStoreRecords(c) ==
    /\ calls[c].result.records # <<>>
    /\ \A i \in 1..Len(calls[c].result.records) :
          \E j \in 1..Len(Snapshot) : calls[c].result.records[i].id = Snapshot[j].id

\* the call after init is not served from what the call before init left
LaterCallNotPoisoned == (ValidContext /\ PlainFirstPage(2)) => ReturnsStoreRecords(2)

\* C32: a getRecordsData call made before init returns an empty well-formed
\* result, and after init with a valid context a later call returns the
\* records of the backing store, not a cached empty snapshot.
C32_EarlyCallDoesNotPoison ==
    /\ Done(1) => EarlyCallEmpty(1)
    /\ LaterCallNotPoisoned

\* the ids p occur in the ids q, in the order of q, each at a place of its own
RECURSIVE IsSubsequence(_, _)
IsSubsequence(p, q) ==
    IF p = <<>> THEN TRUE
    ELSE IF q = <<>> THEN FALSE
    ELSE IF p[1] = q[1] THEN IsSubsequence(Tail(p), Tail(q))
    ELSE IsSubsequence(p, Tail(q))

\* C33: every page getRecordsData returns holds only records of the
\* snapshot that pass the search filter and the facet filter, no record id
\* twice, in the order of the sorted sequence: its ids are a subsequence of
\* the ids of the filtered-and-sorted sequence.
C33_PageFromFilteredSorted ==
    \A c \in CallIds :
        (Done(c) /\ calls[c].settled # "failed" /\ Comparable(c))
            => IsSubsequence(IdsOf(calls[c].result.records), IdsOf(FilteredSorted(c)))

\* both runs have applied both stages
BothOrdersRan ==
    /\ Len(staged.searchFirst.applied) = 2
    /\ Len(staged.filterFirst.applied) = 2

\* C34: the search stage and the facet filter stage commute: for every
\* snapshot, keyword and facet selection, search then facet filter gives
\* the same sequence as facet filter then search.
C34_SearchAndFiltersCommute ==
    BothOrdersRan => staged.searchFirst.recordsData = staged.filterFirst.recordsData

\* both orders ran with a keyword and a selection that each drop a record
\* the other stage keeps, and a record is left
C34_Witness ==
    /\ BothOrdersRan
    /\ staged.keyword # EmptyText
    /\ SelectedValues(staged.filterData) # <<>>
    /\ staged.searchFirst.recordsData # <<>>
    /\ Len(staged.searchFirst.recordsData)
         < Len(ApplySearch(staged.input, staged.keyword))
    /\ Len(staged.filterFirst.recordsData)
         < Len(ApplyFilters(staged.input, staged.filterData))

====
